---------------------------- MODULE Spec2Model ----------------------------
(***************************************************************************)
(* Ensemble fusion and calibration of the medical image authenticity       *)
(* detector: the live combiner of XRayDetectorApp, the calibration module  *)
(* (combineSample, evaluateDataset, gridSearch, persistWeights, the file   *)
(* input handler) and the global AppConfig.WEIGHTS.ENSEMBLE record.        *)
(*                                                                         *)
(* Numbers.  JavaScript numbers are modelled by exact rationals:           *)
(*   - a confidence / score is an integer 0..100;                          *)
(*   - an aiProbability is an integer number of hundredths (0.85 is 85);   *)
(*   - a weight is an integer number of tenths (0.3 is 3);                 *)
(*   - a quotient is a fraction [n |-> numerator, d |-> denominator].      *)
(* Rounding error of IEEE doubles is not modelled.                         *)
(* Absent is JavaScript's undefined (a missing field or a missing key).    *)
(***************************************************************************)
EXTENDS Integers, Sequences, FiniteSets, TLC

Absent == -1

\* 1.0 as a weight (tenths)
WScale == 10

\* the neutral defaults of `?? 50` and `?? 0.5`
NeutralScore == 50
NeutralProb == 50

-----------------------------------------------------------------------------
(* Fractions *)

Frac(n, d) == [n |-> n, d |-> d]
FracAdd(a, b) == Frac(a.n * b.d + b.n * a.d, a.d * b.d)
FracMul(a, b) == Frac(a.n * b.n, a.d * b.d)
FracDiv(a, b) == Frac(a.n * b.d, a.d * b.n)
FracGT(a, b) == a.n * b.d > b.n * a.d
FracEq(a, b) == a.n * b.d = b.n * a.d
FracZero == Frac(0, 1)

Max(a, b) == IF a >= b THEN a ELSE b

\* x ?? dflt
Nullish(v, dflt) == IF v = Absent THEN dflt ELSE v

-----------------------------------------------------------------------------
(* Calibration samples *)

\* keys a sample's `components` object may carry
CompKeys == {"traditional", "enhancedAI", "tensorflow", "onnx", "onnxWeb"}
\* keys of a weight record
WeightKeys == {"traditional", "enhancedAI", "tensorflow", "onnxWeb"}

Comp(c, p) == [present |-> TRUE, confidence |-> c, aiProbability |-> p]
NoComp == [present |-> FALSE, confidence |-> Absent, aiProbability |-> Absent]

Weights(t, e, tf, on) ==
    [traditional |-> t, enhancedAI |-> e, tensorflow |-> tf, onnxWeb |-> on]
\* `weights: null` of gridSearch's initial best: an object with no key
NullWeights == Weights(Absent, Absent, Absent, Absent)

\* calibration.js combineSample: {score, aiProb} of one sample
combineSample(sample, w) ==
    LET comp == sample.components
        t == Nullish(comp["traditional"].confidence, NeutralScore)
        e == Nullish(comp["enhancedAI"].confidence, NeutralScore)
        tf == Nullish(comp["tensorflow"].confidence, NeutralScore)
        onnx == Nullish(comp["onnx"].confidence, NeutralScore)
        s == w.traditional + w.enhancedAI + w.tensorflow + w.onnxWeb
        sumW == IF s = 0 THEN WScale ELSE s
    IN  [score |-> Frac(t * w.traditional + e * w.enhancedAI
                         + tf * w.tensorflow + onnx * w.onnxWeb, sumW),
         aiProb |-> Frac(Nullish(comp["traditional"].aiProbability, NeutralProb) * w.traditional
                         + Nullish(comp["enhancedAI"].aiProbability, NeutralProb) * w.enhancedAI
                         + Nullish(comp["tensorflow"].aiProbability, NeutralProb) * w.tensorflow
                         + Nullish(comp["onnx"].aiProbability, NeutralProb) * w.onnxWeb, sumW)]

\* !!s.label
Truthy(label) == label # Absent /\ label # 0

\* Op applied to the value of v.  TLC evaluates an operator's argument and a
\* LET definition anew at every use; a quantified identifier is bound to a
\* value, so a result that is used several times is computed once.
With(v, Op(_)) == CHOOSE r \in {Op(b) : b \in {v}} : TRUE

\* lines 26-29 with a sample at the threshold predicted authentic
CountExclusive(s, w, th, c) ==
    With(combineSample(s, w).aiProb, LAMBDA aiProb :
        LET predAI == aiProb.n > th * aiProb.d
            isAI == Truthy(s.label)
        IN  IF predAI /\ isAI THEN [c EXCEPT !.tp = @ + 1]
            ELSE IF predAI /\ ~isAI THEN [c EXCEPT !.fp = @ + 1]
            ELSE IF ~predAI /\ ~isAI THEN [c EXCEPT !.tn = @ + 1]
            ELSE [c EXCEPT !.fn = @ + 1])

\* lines 26-29 for one sample: the confusion counts c with the sample counted
Count(s, w, th, c) ==
    With(combineSample(s, w).aiProb, LAMBDA aiProb :
        LET predAI == aiProb.n >= th * aiProb.d
            isAI == Truthy(s.label)
        IN  IF predAI /\ isAI THEN [c EXCEPT !.tp = @ + 1]
            ELSE IF predAI /\ ~isAI THEN [c EXCEPT !.fp = @ + 1]
            ELSE IF ~predAI /\ ~isAI THEN [c EXCEPT !.tn = @ + 1]
            ELSE [c EXCEPT !.fn = @ + 1])

\* the loop of evaluateDataset (lines 25-30)
RECURSIVE Confusion(_, _, _, _, _)
Confusion(samples, i, w, th, c) ==
    IF i > Len(samples) THEN c
    ELSE With(Count(samples[i], w, th, c), LAMBDA c2 :
             Confusion(samples, i + 1, w, th, c2))

\* lines 31-35 with f1 = P * R / (P + R), the factor 2 left out
MetricsHalfF1(c, n) ==
    LET acc == Frac(c.tp + c.tn, Max(1, n))
        prec == Frac(c.tp, Max(1, c.tp + c.fp))
        rec == Frac(c.tp, Max(1, c.tp + c.fn))
        f1 == IF FracGT(FracAdd(prec, rec), FracZero)
              THEN FracDiv(FracMul(prec, rec), FracAdd(prec, rec))
              ELSE FracZero
    IN  [acc |-> acc, f1 |-> f1, tp |-> c.tp, tn |-> c.tn, fp |-> c.fp, fn |-> c.fn]

\* lines 31-35: the metrics of the confusion counts c of n samples
Metrics(c, n) ==
    LET acc == Frac(c.tp + c.tn, Max(1, n))
        prec == Frac(c.tp, Max(1, c.tp + c.fp))
        rec == Frac(c.tp, Max(1, c.tp + c.fn))
        f1 == IF FracGT(FracAdd(prec, rec), FracZero)
              THEN FracDiv(FracMul(Frac(2, 1), FracMul(prec, rec)), FracAdd(prec, rec))
              ELSE FracZero
    IN  [acc |-> acc, f1 |-> f1, tp |-> c.tp, tn |-> c.tn, fp |-> c.fp, fn |-> c.fn]

\* calibration.js evaluateDataset
evaluateDataset(samples, w, th) ==
    With(Confusion(samples, 1, w, th, [tp |-> 0, tn |-> 0, fp |-> 0, fn |-> 0]),
         LAMBDA c : Metrics(c, Len(samples)))

\* line 39 with the grid walked from 1.0 down to 0.0
stepsDescending == <<10, 9, 8, 7, 6, 5, 4, 3, 2, 1, 0>>

\* the weight grid 0, 0.1, ..., 1.0 (tenths) and the thresholds (hundredths)
steps == <<0, 1, 2, 3, 4, 5, 6, 7, 8, 9, 10>>
thresholds == <<40, 50, 60, 70>>

InitialBest == [weights |-> NullWeights, threshold |-> 50, acc |-> FracZero, f1 |-> FracZero]

\* line 50 with a candidate that only ties on both replacing best
ImprovesOrTies(m, best) ==
    FracGT(m.f1, best.f1) \/ (FracEq(m.f1, best.f1) /\ ~FracGT(best.acc, m.acc))

\* line 50 without its accuracy tie-break
ImprovesF1Only(m, best) ==
    FracGT(m.f1, best.f1)

\* line 50: do the metrics m of a candidate replace best?
Improves(m, best) ==
    FracGT(m.f1, best.f1) \/ (FracEq(m.f1, best.f1) /\ FracGT(m.acc, best.acc))

\* lines 49-52: best after the candidate (w, th)
Candidate(samples, w, th, best) ==
    With(evaluateDataset(samples, w, th), LAMBDA m :
        IF Improves(m, best)
        THEN [weights |-> w, threshold |-> th, acc |-> m.acc, f1 |-> m.f1]
        ELSE best)

\* the threshold loop (lines 48-53) for one weight record
RECURSIVE ThLoop(_, _, _, _)
ThLoop(samples, w, k, best) ==
    IF k > Len(thresholds) THEN best
    ELSE With(Candidate(samples, w, thresholds[k], best), LAMBDA b :
             ThLoop(samples, w, k + 1, b))

\* lines 44-53: one weight triple, tensorflow fixed at 0
Triple(samples, wt, we, won, best) ==
    LET wtf == 0
        wsum == wt + we + won + wtf
    IN  IF wsum <= 0 THEN best
        ELSE With(Weights(wt, we, wtf, won), LAMBDA w : ThLoop(samples, w, 1, best))

\* the onnxWeb loop (line 43)
RECURSIVE OnLoop(_, _, _, _, _)
OnLoop(samples, wt, we, k, best) ==
    IF k > Len(steps) THEN best
    ELSE With(Triple(samples, wt, we, steps[k], best), LAMBDA b :
             OnLoop(samples, wt, we, k + 1, b))

\* the enhancedAI loop (line 42)
RECURSIVE EnLoop(_, _, _, _)
EnLoop(samples, wt, j, best) ==
    IF j > Len(steps) THEN best
    ELSE With(OnLoop(samples, wt, steps[j], 1, best), LAMBDA b :
             EnLoop(samples, wt, j + 1, b))

\* the traditional loop (line 41)
RECURSIVE TrLoop(_, _, _)
TrLoop(samples, i, best) ==
    IF i > Len(steps) THEN best
    ELSE With(EnLoop(samples, steps[i], 1, best), LAMBDA b :
             TrLoop(samples, i + 1, b))

\* calibration.js gridSearch
gridSearch(samples) == With(samples, LAMBDA d : TrLoop(d, 1, InitialBest))

-----------------------------------------------------------------------------
(* The live combiner of XRayDetectorApp *)

\* a source's result record: confidence, aiProbability (Absent when the
\* source reports none) and method
Result(c, p, m) == [confidence |-> c, aiProbability |-> p, method |-> m]
NoResult == Result(Absent, Absent, "none")

\* the fallback results of runTensorFlowAnalysis and runEnhancedAIAnalysis
TFFallback == Result(50, 50, "Fallback Analysis")
EnhFallback == Result(50, 50, "Enhanced AI Fallback")

\* p || 0.5 : undefined and 0 are both falsy
OrHalf(p) == IF p = Absent \/ p = 0 THEN NeutralProb ELSE p

\* Math.round of a non-negative number of tenths
RoundTenths(n) == (n + 5) \div WScale

\* lines 273-294: the weights (tenths) chosen from the methods that fell back
liveWeights(tensorflow, enhancedAI) ==
    IF tensorflow.method = "Fallback Analysis" /\ enhancedAI.method = "Enhanced AI Fallback"
    THEN [traditional |-> 8, tensorflow |-> 1, enhancedAI |-> 1]
    ELSE IF tensorflow.method = "Fallback Analysis"
    THEN [traditional |-> 2, tensorflow |-> 1, enhancedAI |-> 7]
    ELSE IF enhancedAI.method = "Enhanced AI Fallback"
    THEN [traditional |-> 2, tensorflow |-> 7, enhancedAI |-> 1]
    ELSE [traditional |-> 2, tensorflow |-> 3, enhancedAI |-> 5]

\* lines 306-317: the status bands; aiProbability in thousandths
AIStatus == "Likely AI Generated"
SuspiciousStatus == "Suspicious - Manual Review Recommended"
AuthenticStatus == "Likely Authentic"
\* the bands with their boundaries included
statusOfInclusive(p1000) ==
    IF p1000 >= 700 THEN AIStatus
    ELSE IF p1000 >= 400 THEN SuspiciousStatus
    ELSE AuthenticStatus
statusOf(p1000) ==
    IF p1000 > 700 THEN AIStatus
    ELSE IF p1000 > 400 THEN SuspiciousStatus
    ELSE AuthenticStatus

\* combineResults with the results taken by position in another order than
\* performAnalysis names them (the second as enhancedAI, the third as
\* tensorflow)
combineResultsByPosition(traditional, tensorflow, enhancedAI) ==
    LET w == liveWeights(enhancedAI, tensorflow)
        combinedConfidence ==
            RoundTenths(traditional.confidence * w.traditional
                        + enhancedAI.confidence * w.tensorflow
                        + tensorflow.confidence * w.enhancedAI)
        combinedAIProbability ==
            OrHalf(traditional.aiProbability) * w.traditional
            + OrHalf(enhancedAI.aiProbability) * w.tensorflow
            + OrHalf(tensorflow.aiProbability) * w.enhancedAI
    IN  [confidence |-> combinedConfidence,
         status |-> statusOf(combinedAIProbability),
         aiProbability |-> combinedAIProbability]

\* XRayDetectorApp.combineResults; aiProbability is returned in thousandths
combineResults(traditional, tensorflow, enhancedAI) ==
    LET w == liveWeights(tensorflow, enhancedAI)
        combinedConfidence ==
            RoundTenths(traditional.confidence * w.traditional
                        + tensorflow.confidence * w.tensorflow
                        + enhancedAI.confidence * w.enhancedAI)
        combinedAIProbability ==
            OrHalf(traditional.aiProbability) * w.traditional
            + OrHalf(tensorflow.aiProbability) * w.tensorflow
            + OrHalf(enhancedAI.aiProbability) * w.enhancedAI
    IN  [confidence |-> combinedConfidence,
         status |-> statusOf(combinedAIProbability),
         aiProbability |-> combinedAIProbability]

-----------------------------------------------------------------------------
(* Calibration inputs *)

\* a sample with the given label and the given traditional, enhancedAI, onnx
\* and onnxWeb components (no tensorflow component)
Sample(l, t, e, on, onw) ==
    [label |-> l,
     components |-> [k \in CompKeys |->
        CASE k = "traditional" -> t
          [] k = "enhancedAI" -> e
          [] k = "onnx" -> on
          [] k = "onnxWeb" -> onw
          [] OTHER -> NoComp]]

\* two well-formed samples: an AI image and an authentic one
AISample == Sample(1, Comp(30, 80), Comp(25, 85), NoComp, NoComp)
AuthenticSample == Sample(0, Comp(85, 10), Comp(80, 15), NoComp, NoComp)
\* a sample with no `label` field
NoLabelSample == Sample(Absent, Comp(30, 80), NoComp, NoComp, NoComp)
\* a sample whose traditional component is {} (neither field)
BadCompSample == Sample(1, Comp(Absent, Absent), Comp(25, 85), NoComp, NoComp)
\* an AI sample every searched method scores below every threshold
LowSample == Sample(1, Comp(80, 10), Comp(80, 20), Comp(80, 30), NoComp)
\* what iterating a JSON string yields: characters, with no label and no components
CharSample == Sample(Absent, NoComp, NoComp, NoComp, NoComp)
\* a sample that stores its ONNX result under the key `onnxWeb`, the weight's name
OnnxWebSample == Sample(1, Comp(30, 80), Comp(25, 85), NoComp, Comp(20, 95))

\* The files the user may choose.  kind is what JSON.parse makes of the text:
\* "invalid" (it throws), "object" (a value that is no array and not
\* iterable), "string" (no array, but iterable), "array".
Input(kind, samples) == [kind |-> kind, samples |-> samples]
CalibInputs ==
    << Input("invalid", <<>>),
       Input("object", <<>>),
       Input("string", <<CharSample, CharSample>>),
       Input("array", <<>>),
       Input("array", <<AISample, AuthenticSample>>),
       Input("array", <<NoLabelSample>>),
       Input("array", <<BadCompSample, AuthenticSample>>),
       Input("array", <<LowSample>>) >>
InputIds == 1..Len(CalibInputs)
NoInput == 0

\* gridSearch of every input that can be iterated, computed once
GridBest == [i \in InputIds |-> gridSearch(CalibInputs[i].samples)]

-----------------------------------------------------------------------------
(* State *)

VARIABLES
    ENSEMBLE,       \* window.AppConfig.WEIGHTS.ENSEMBLE, the live weights (tenths)
    lsWeights,      \* localStorage 'ensembleWeights' (NullWeights: no item)
    lsThreshold,    \* localStorage 'ensembleThreshold' (Absent: no item)
    calibPending,   \* the input whose file.text() the onchange handler awaits
    lastCalib,      \* the last finished calibration request and its alert
    currentFile,    \* XRayDetectorApp.currentFile is set
    isAnalyzing,    \* XRayDetectorApp.isAnalyzing
    pc,             \* where analyzeImage / performAnalysis stands
    tradTask,       \* the runTraditionalAnalysis task
    tfTask,         \* the runTensorFlowAnalysis task
    enhTask,        \* the runEnhancedAIAnalysis task
    verdict,        \* what performAnalysis returned
    call,           \* the last direct call of window.Calibration / combineSample
    ret,            \* and what it returned
    worker,         \* TensorFlowAnalyzer.worker: the Worker it holds (0: null)
    isWorkerReady,  \* TensorFlowAnalyzer.isWorkerReady
    workerLoading,  \* TensorFlowAnalyzer.workerLoading
    workers,        \* how many Workers the analyzer has created
    readyDue,       \* the Workers that were sent 'init' and have not answered
    tfPc,           \* where TensorFlowAnalyzer.analyzeImage stands
    attempts,       \* the local `attempts` of analyzeImage
    postedTo        \* the Worker the 'analyze' request was posted to (0: none)

cfgVars == <<ENSEMBLE, lsWeights, lsThreshold>>
calibVars == <<calibPending, lastCalib>>
appVars == <<currentFile, isAnalyzing, pc, tradTask, tfTask, enhTask, verdict>>
apiVars == <<call, ret>>
workerVars == <<worker, isWorkerReady, workerLoading, workers, readyDue, tfPc, attempts, postedTo>>
vars == <<ENSEMBLE, lsWeights, lsThreshold, calibPending, lastCalib,
          currentFile, isAnalyzing, pc, tradTask, tfTask, enhTask, verdict, call, ret,
          worker, isWorkerReady, workerLoading, workers, readyDue, tfPc, attempts, postedTo>>

\* no TensorFlowAnalyzer has been constructed
NoAnalyzer ==
    /\ worker = 0
    /\ isWorkerReady = FALSE
    /\ workerLoading = FALSE
    /\ workers = 0
    /\ readyDue = {}
    /\ tfPc = "none"
    /\ attempts = 0
    /\ postedTo = 0

\* config.js defaultConfig.WEIGHTS.ENSEMBLE
DefaultEnsemble == Weights(3, 4, 0, 3)

\* { ...current, ...upd } and Object.assign(current, upd)
Merge(current, upd) ==
    [k \in WeightKeys |-> IF upd[k] # Absent THEN upd[k] ELSE current[k]]

NoCalib == [input |-> NoInput, alert |-> "none", ranGrid |-> FALSE, best |-> InitialBest]

\* a task of performAnalysis: st is "idle", "pending", "fulfilled" or "rejected"
Task(st, r) == [st |-> st, result |-> r]
IdleTask == Task("idle", NoResult)
PendingTask == Task("pending", NoResult)

\* combinedAIProbability is the aiProbability combineResults returned; the
\* record performAnalysis returns (lines 178-187) does not carry it
NoVerdict ==
    [kind |-> "none", confidence |-> Absent, status |-> "none",
     combinedAIProbability |-> Absent]
NoCall == [op |-> "none"]
NoRet == [done |-> FALSE]
Returned(v) == [done |-> TRUE, val |-> v]

-----------------------------------------------------------------------------
(* The calibration file handler (calibration.js injectUI, input.onchange) *)

\* lines 95-98 without the Array.isArray check of line 96: whatever
\* `for ... of` can iterate reaches gridSearch's loops, anything else throws
\* a TypeError inside gridSearch
parseAndSearchAnyIterable(i) ==
    LET data == CalibInputs[i]
    IN  IF data.kind = "invalid"
        THEN [threw |-> TRUE, ranGrid |-> FALSE, best |-> InitialBest]
        ELSE IF data.kind = "object"
        THEN [threw |-> TRUE, ranGrid |-> TRUE, best |-> InitialBest]
        ELSE [threw |-> FALSE, ranGrid |-> TRUE, best |-> GridBest[i]]

\* lines 95-98: loadJSONFile, the Array.isArray check and gridSearch.
\* threw: an exception reached the catch of line 101.
parseAndSearch(i) ==
    LET data == CalibInputs[i]
    IN  IF data.kind = "invalid"
        THEN [threw |-> TRUE, ranGrid |-> FALSE, best |-> InitialBest]
        ELSE IF data.kind # "array"
        THEN [threw |-> TRUE, ranGrid |-> FALSE, best |-> InitialBest]
        ELSE [threw |-> FALSE, ranGrid |-> TRUE, best |-> GridBest[i]]

\* persistWeights with the live record written key by key around the
\* localStorage writes: the traditional weight before the first setItem, the
\* other keys after the second
persistWeightsKeyByKey(best, failAt) ==
    LET current == ENSEMBLE
        next == Merge(current, best.weights)
    IN  /\ lsWeights' = IF failAt = 1 THEN lsWeights ELSE next
        /\ lsThreshold' = IF failAt = 0 THEN best.threshold ELSE lsThreshold
        /\ ENSEMBLE' = IF failAt = 0 THEN Merge(ENSEMBLE, next)
                       ELSE [ENSEMBLE EXCEPT !.traditional = next.traditional]

\* calibration.js persistWeights.  failAt names the localStorage.setItem that
\* throws (0: none, 1: the first, 2: the second); the catch of line 76
\* swallows the exception, so the lines after the throwing one are skipped.
persistWeights(best, failAt) ==
    LET current == ENSEMBLE
        next == Merge(current, best.weights)
    IN  /\ lsWeights' = IF failAt = 1 THEN lsWeights ELSE next
        /\ lsThreshold' = IF failAt = 0 THEN best.threshold ELSE lsThreshold
        /\ ENSEMBLE' = IF failAt = 0 THEN Merge(ENSEMBLE, next) ELSE ENSEMBLE

\* input.onchange up to `await loadJSONFile(file)`: a file was chosen
\* (with no file the handler returns at line 94 and nothing changes)
CalibFileChosen(i) ==
    /\ calibPending = NoInput
    /\ calibPending' = i
    /\ UNCHANGED <<cfgVars, lastCalib, appVars, apiVars, workerVars>>

\* input.onchange after the await (lines 96-103), one synchronous run
CalibResume ==
    /\ calibPending # NoInput
    /\ LET r == parseAndSearch(calibPending)
       IN  IF r.threw
           THEN /\ lastCalib' = [input |-> calibPending, alert |-> "failed",
                                 ranGrid |-> r.ranGrid, best |-> InitialBest]
                /\ UNCHANGED cfgVars
           ELSE /\ \E failAt \in 0..2 : persistWeights(r.best, failAt)
                /\ lastCalib' = [input |-> calibPending, alert |-> "done",
                                 ranGrid |-> r.ranGrid, best |-> r.best]
    /\ calibPending' = NoInput
    /\ UNCHANGED <<appVars, apiVars, workerVars>>

-----------------------------------------------------------------------------
(* One analysis (XRayDetectorApp.analyzeImage and performAnalysis) *)

\* handleFileSelect with a valid image file
HandleFileSelect ==
    /\ currentFile' = TRUE
    /\ UNCHANGED <<cfgVars, calibVars, isAnalyzing, pc, tradTask, tfTask, enhTask, verdict, apiVars, workerVars>>

\* resetUpload
ResetUpload ==
    /\ currentFile' = FALSE
    /\ UNCHANGED <<cfgVars, calibVars, isAnalyzing, pc, tradTask, tfTask, enhTask, verdict, apiVars, workerVars>>

\* analyzeImage without the isAnalyzing half of the guard of line 79
AnalyzeImageUnguarded ==
    /\ currentFile
    /\ isAnalyzing' = TRUE
    /\ pc' = "awaitAll"
    /\ tradTask' = PendingTask
    /\ tfTask' = PendingTask
    /\ enhTask' = PendingTask
    /\ verdict' = NoVerdict
    /\ UNCHANGED <<cfgVars, calibVars, currentFile, apiVars, workerVars>>

\* analyzeImage (lines 79-89 / 117-118) and performAnalysis up to the await of
\* Promise.all: the three tasks are started
AnalyzeImage ==
    /\ currentFile /\ ~isAnalyzing
    /\ isAnalyzing' = TRUE
    /\ pc' = "awaitAll"
    /\ tradTask' = PendingTask
    /\ tfTask' = PendingTask
    /\ enhTask' = PendingTask
    /\ verdict' = NoVerdict
    /\ UNCHANGED <<cfgVars, calibVars, currentFile, apiVars, workerVars>>

\* runTraditionalAnalysis settles: with the analyzer's overall confidence, or
\* rejected (it has no try/catch: whatever ImageAnalyzer.analyzeImage throws)
TraditionalSettles(confs) ==
    /\ tradTask.st = "pending"
    /\ \/ \E c \in confs :
            tradTask' = Task("fulfilled", Result(c, Absent, "Traditional Analysis"))
       \/ tradTask' = Task("rejected", NoResult)
    /\ UNCHANGED <<cfgVars, calibVars, currentFile, isAnalyzing, pc, tfTask, enhTask, verdict, apiVars, workerVars>>

\* runTensorFlowAnalysis settles: the analyzer's result, or (catch, lines
\* 229-240) the fallback result; it is never rejected
TensorFlowSettles(results) ==
    /\ tfTask.st = "pending"
    /\ \/ \E r \in results :
            tfTask' = Task("fulfilled", Result(r[1], r[2], "Advanced CNN Analysis (Worker)"))
       \/ tfTask' = Task("fulfilled", TFFallback)
    /\ UNCHANGED <<cfgVars, calibVars, currentFile, isAnalyzing, pc, tradTask, enhTask, verdict, apiVars, workerVars>>

\* runEnhancedAIAnalysis settles likewise (catch, lines 258-268)
EnhancedAISettles(results) ==
    /\ enhTask.st = "pending"
    /\ \/ \E r \in results :
            enhTask' = Task("fulfilled", Result(r[1], r[2], "Enhanced AI Analysis"))
       \/ enhTask' = Task("fulfilled", EnhFallback)
    /\ UNCHANGED <<cfgVars, calibVars, currentFile, isAnalyzing, pc, tradTask, tfTask, verdict, apiVars, workerVars>>

\* Promise.all fulfilled (all three are): combineResults, the return of
\* performAnalysis, displayResults and the finally of analyzeImage
AllFulfilled ==
    /\ pc = "awaitAll"
    /\ tradTask.st = "fulfilled" /\ tfTask.st = "fulfilled" /\ enhTask.st = "fulfilled"
    /\ LET c == combineResults(tradTask.result, tfTask.result, enhTask.result)
       IN  verdict' = [kind |-> "fused", confidence |-> c.confidence,
                       status |-> c.status, combinedAIProbability |-> c.aiProbability]
    /\ pc' = "done"
    /\ isAnalyzing' = FALSE
    /\ UNCHANGED <<cfgVars, calibVars, currentFile, tradTask, tfTask, enhTask, apiVars, workerVars>>

\* Promise.all rejects as soon as one task does (only the traditional one
\* can): the catch of performAnalysis (lines 188-192) calls
\* runTraditionalAnalysis again; the other tasks are left running
AnyRejected ==
    /\ pc = "awaitAll"
    /\ tradTask.st = "rejected"
    /\ pc' = "fallback"
    /\ tradTask' = PendingTask
    /\ UNCHANGED <<cfgVars, calibVars, currentFile, isAnalyzing, tfTask, enhTask, verdict, apiVars, workerVars>>

\* the second runTraditionalAnalysis fulfilled: performAnalysis returns its
\* result as it is (no fusion)
FallbackFulfilled ==
    /\ pc = "fallback"
    /\ tradTask.st = "fulfilled"
    /\ verdict' = [kind |-> "traditionalOnly", confidence |-> tradTask.result.confidence,
                   status |-> "traditional", combinedAIProbability |-> Absent]
    /\ pc' = "done"
    /\ isAnalyzing' = FALSE
    /\ UNCHANGED <<cfgVars, calibVars, currentFile, tradTask, tfTask, enhTask, apiVars, workerVars>>

\* the second runTraditionalAnalysis rejected: performAnalysis rejects, the
\* catch of analyzeImage (lines 125-127) shows 'Analysis failed'
FallbackRejected ==
    /\ pc = "fallback"
    /\ tradTask.st = "rejected"
    /\ pc' = "failed"
    /\ isAnalyzing' = FALSE
    /\ UNCHANGED <<cfgVars, calibVars, currentFile, tradTask, tfTask, enhTask, verdict, apiVars, workerVars>>

-----------------------------------------------------------------------------
(* Page load *)

\* the page load with the stored record taken as the whole weight record
LoadedEnsembleReplaced(stored) ==
    IF stored # NullWeights THEN stored ELSE DefaultEnsemble

\* config.js, then calibration.js lines 107-113: stored weights, if any, are
\* merged into the default ENSEMBLE record
LoadedEnsemble(stored) ==
    IF stored # NullWeights THEN Merge(DefaultEnsemble, stored) ELSE DefaultEnsemble

\* the user reloads the page: everything but localStorage starts anew
Reload ==
    /\ ENSEMBLE' = LoadedEnsemble(lsWeights)
    /\ calibPending' = NoInput
    /\ lastCalib' = NoCalib
    /\ currentFile' = FALSE
    /\ isAnalyzing' = FALSE
    /\ pc' = "idle"
    /\ tradTask' = IdleTask
    /\ tfTask' = IdleTask
    /\ enhTask' = IdleTask
    /\ verdict' = NoVerdict
    /\ worker' = 0
    /\ isWorkerReady' = FALSE
    /\ workerLoading' = FALSE
    /\ workers' = 0
    /\ readyDue' = {}
    /\ tfPc' = "none"
    /\ attempts' = 0
    /\ postedTo' = 0
    /\ UNCHANGED <<lsWeights, lsThreshold, apiVars>>

\* the first page load, with an empty localStorage
Init ==
    /\ lsWeights = NullWeights
    /\ lsThreshold = Absent
    /\ ENSEMBLE = LoadedEnsemble(NullWeights)
    /\ calibPending = NoInput
    /\ lastCalib = NoCalib
    /\ currentFile = FALSE
    /\ isAnalyzing = FALSE
    /\ pc = "idle"
    /\ tradTask = IdleTask
    /\ tfTask = IdleTask
    /\ enhTask = IdleTask
    /\ verdict = NoVerdict
    /\ call = NoCall
    /\ ret = NoRet
    /\ NoAnalyzer

\* what the sources report in the application's specification
TradConfs == {85}
AppResults == {<<20, 90>>}

Next ==
    \/ \E i \in InputIds : CalibFileChosen(i)
    \/ CalibResume
    \/ HandleFileSelect
    \/ ResetUpload
    \/ AnalyzeImage
    \/ TraditionalSettles(TradConfs)
    \/ TensorFlowSettles(AppResults)
    \/ EnhancedAISettles(AppResults)
    \/ AllFulfilled
    \/ AnyRejected
    \/ FallbackFulfilled
    \/ FallbackRejected
    \/ Reload

Spec == Init /\ [][Next]_vars

-----------------------------------------------------------------------------
(* The analysis alone, over more results of the sources *)

\* confidences and aiProbabilities (hundredths; Absent: none reported)
AnalysisConfs == {20, 80}
AnalysisProbs == {Absent, 0, 30, 50, 90}
AnalysisResults == {<<c, p>> : c \in AnalysisConfs, p \in AnalysisProbs}

NextAnalysis ==
    \/ HandleFileSelect
    \/ ResetUpload
    \/ AnalyzeImage
    \/ TraditionalSettles(AnalysisConfs)
    \/ TensorFlowSettles(AnalysisResults)
    \/ EnhancedAISettles(AnalysisResults)
    \/ AllFulfilled
    \/ AnyRejected
    \/ FallbackFulfilled
    \/ FallbackRejected

SpecAnalysis == Init /\ [][NextAnalysis]_vars

-----------------------------------------------------------------------------
(* Direct calls of the calibration functions (window.Calibration) *)

\* the longest dataset of a direct call
MaxSamples == 2

\* a sample with a tensorflow component and the two onnx keys
FullSample ==
    [label |-> 1,
     components |-> [k \in CompKeys |->
        CASE k = "traditional" -> Comp(30, 80)
          [] k = "enhancedAI" -> Comp(25, 85)
          [] k = "tensorflow" -> Comp(40, 70)
          [] k = "onnx" -> Comp(10, 90)
          [] OTHER -> Comp(20, 95)]]

ApiSamples == {AISample, AuthenticSample, LowSample}
FuseSamples == ApiSamples \cup {FullSample, BadCompSample, CharSample, OnnxWebSample}

RECURSIVE SeqsUpTo(_, _)
SeqsUpTo(S, n) ==
    IF n = 0 THEN {<<>>}
    ELSE LET shorter == SeqsUpTo(S, n - 1)
         IN  shorter \cup {Append(q, e) : q \in {r \in shorter : Len(r) = n - 1}, e \in S}
Datasets == SeqsUpTo(ApiSamples, MaxSamples)

\* weights (tenths) of a direct call
ApiWeightVals == {0, 5, 10}
ApiWeights == {Weights(t, e, tfw, on) : t \in ApiWeightVals, e \in ApiWeightVals,
                                        tfw \in ApiWeightVals, on \in ApiWeightVals}

ApiIdle == call.op = "none" \/ ret.done

CallCombineSample ==
    /\ ApiIdle
    /\ \E s \in FuseSamples, w \in ApiWeights :
           call' = [op |-> "combineSample", sample |-> s, weights |-> w]
    /\ ret' = NoRet
    /\ UNCHANGED <<cfgVars, calibVars, appVars, workerVars>>

\* weights of a direct call of evaluateDataset; with the last, a sample
\* without an onnx component has aiProb 0.5, the threshold 0.5 exactly
EvalWeights ==
    {Weights(5, 5, 0, 0), Weights(0, 10, 0, 5), Weights(0, 0, 0, 0), Weights(0, 0, 0, 10)}

CallEvaluateDataset ==
    /\ ApiIdle
    /\ \E d \in Datasets, w \in EvalWeights, k \in 1..Len(thresholds) :
           call' = [op |-> "evaluateDataset", samples |-> d, weights |-> w,
                    threshold |-> thresholds[k]]
    /\ ret' = NoRet
    /\ UNCHANGED <<cfgVars, calibVars, appVars, workerVars>>

CallGridSearch ==
    /\ ApiIdle
    /\ \E d \in Datasets : call' = [op |-> "gridSearch", samples |-> d]
    /\ ret' = NoRet
    /\ UNCHANGED <<cfgVars, calibVars, appVars, workerVars>>

ApiReturn ==
    /\ call.op # "none" /\ ~ret.done
    /\ ret' = Returned(
           CASE call.op = "combineSample" -> combineSample(call.sample, call.weights)
             [] call.op = "evaluateDataset" ->
                    evaluateDataset(call.samples, call.weights, call.threshold)
             [] OTHER -> gridSearch(call.samples))
    /\ UNCHANGED <<call, cfgVars, calibVars, appVars, workerVars>>

NextCalib ==
    \/ CallCombineSample
    \/ CallEvaluateDataset
    \/ CallGridSearch
    \/ ApiReturn

SpecCalib == Init /\ [][NextCalib]_vars

-----------------------------------------------------------------------------
(* Properties *)

\* the step in which performAnalysis fuses the three results
FusionStep == pc = "awaitAll" /\ pc' = "done"

\* the sum of the weights w gives the three methods of the live mapping
ActiveSum(w) == w.traditional + w.tensorflow + w.enhancedAI

\* is v the verdict that the weights w give for the three results: confidence
\* round(sum of score * weight / sum of weights), aiProbability (thousandths)
\* sum of aiProbability * weight / sum of weights, a missing aiProbability
\* counted as 0.5
FusedWith(v, w, traditional, tensorflow, enhancedAI) ==
    LET scores == traditional.confidence * w.traditional
                  + tensorflow.confidence * w.tensorflow
                  + enhancedAI.confidence * w.enhancedAI
        probs == Nullish(traditional.aiProbability, NeutralProb) * w.traditional
                 + Nullish(tensorflow.aiProbability, NeutralProb) * w.tensorflow
                 + Nullish(enhancedAI.aiProbability, NeutralProb) * w.enhancedAI
    IN  /\ v.confidence = (2 * scores + ActiveSum(w)) \div (2 * ActiveSum(w))
        /\ v.combinedAIProbability * ActiveSum(w) = WScale * probs

\* C1: whenever the three results are fused and the configured weights of
\* the three methods have a positive sum, the verdict's confidence is
\* round(sum of score * weight / sum of weights) and its aiProbability is
\* sum of aiProbability * weight / sum of weights, the weights being those of
\* the configuration (AppConfig.WEIGHTS.ENSEMBLE).
C1_FusedByConfiguredWeights ==
    [][(FusionStep /\ ActiveSum(ENSEMBLE) > 0)
        => FusedWith(verdict', ENSEMBLE, tradTask.result, tfTask.result, enhTask.result)]_vars

C3_JoinAllThenFuse ==
    pc \in {"done", "failed"} =>
        /\ pc = "done"
        /\ verdict.kind = "fused"
        /\ tradTask.st \in {"fulfilled", "rejected"}
        /\ tfTask.st = "fulfilled"
        /\ enhTask.st = "fulfilled"

\* C4: once a calibration has been applied (the handler reported success and
\* the live record carries the weights it found), the next fusion uses these
\* weights.
C4_CalibratedWeightsUsed ==
    [][(/\ FusionStep
        /\ lastCalib.alert = "done"
        /\ lastCalib.best.weights # NullWeights
        /\ ENSEMBLE = Merge(ENSEMBLE, lastCalib.best.weights)
        /\ ActiveSum(ENSEMBLE) > 0)
        => FusedWith(verdict', lastCalib.best.weights,
                     tradTask.result, tfTask.result, enhTask.result)]_vars

\* C5: what gridSearch returns for a non-empty dataset is lexicographically
\* optimal over the whole grid: no weight triple with a positive sum and no
\* threshold has a higher F1, or the same F1 and a higher accuracy; and the
\* weights it returns, if any, reach the F1 and the accuracy it returns.
C5_GridSearchOptimal ==
    (call.op = "gridSearch" /\ ret.done /\ Len(call.samples) >= 1) =>
        /\ \A i \in 1..Len(steps), j \in 1..Len(steps), k \in 1..Len(steps),
              h \in 1..Len(thresholds) :
              steps[i] + steps[j] + steps[k] > 0 =>
                  \A m \in {evaluateDataset(call.samples,
                                Weights(steps[i], steps[j], 0, steps[k]), thresholds[h])} :
                      /\ ~FracGT(m.f1, ret.val.f1)
                      /\ FracEq(m.f1, ret.val.f1) => ~FracGT(m.acc, ret.val.acc)
        /\ ret.val.weights # NullWeights =>
              \A m \in {evaluateDataset(call.samples, ret.val.weights, ret.val.threshold)} :
                  /\ FracEq(m.f1, ret.val.f1)
                  /\ FracEq(m.acc, ret.val.acc)
                  /\ ret.val.weights.tensorflow = 0
                  /\ ActiveSum(ret.val.weights) + ret.val.weights.onnxWeb > 0

\* gridSearch has returned for a dataset on which every configuration has
\* F1 0, so that the accuracy alone decided (some reach 1, some only 0)
C5_TieBrokenByAccuracy ==
    /\ call.op = "gridSearch" /\ ret.done
    /\ call.samples = <<AuthenticSample>>
    /\ ret.val.weights # NullWeights
    /\ FracEq(ret.val.f1, FracZero)
    /\ FracEq(ret.val.acc, Frac(1, 1))
    /\ FracEq(evaluateDataset(call.samples, Weights(0, 0, 0, 10), 40).acc, FracZero)

\* the calibration handler resumes and finishes the request for input i
CalibFinishes(i) ==
    calibPending = i /\ calibPending' = NoInput /\ lastCalib'.input = i

\* C6: when the grid search selects no configuration (weights null), the
\* request is reported as a failure and neither the live weights nor the
\* persisted entries change.
C6_NoViableConfigIsFailure ==
    [][\A i \in InputIds :
        (CalibFinishes(i) /\ lastCalib'.ranGrid /\ lastCalib'.best.weights = NullWeights)
            => (lastCalib'.alert = "failed" /\ UNCHANGED cfgVars)]_vars

\* C7: a file that parses as JSON but is no array is rejected with the
\* failure alert; the grid search is not run and neither the live weights
\* nor the persisted entries change.
C7_NonArrayRejected ==
    [][\A i \in InputIds :
        (CalibFinishes(i) /\ CalibInputs[i].kind \in {"object", "string"})
            => (/\ lastCalib'.alert = "failed"
                /\ ~lastCalib'.ranGrid
                /\ UNCHANGED cfgVars)]_vars

\* the handler has finished a request whose file held a JSON string
C7_StringFileRejected ==
    /\ lastCalib.input # NoInput
    /\ CalibInputs[lastCalib.input].kind = "string"
    /\ lastCalib.alert = "failed"
    /\ calibPending = NoInput

\* a sample with no label, or with a component that has neither field
Malformed(sample) ==
    \/ sample.label = Absent
    \/ \E k \in CompKeys :
          /\ sample.components[k].present
          /\ sample.components[k].confidence = Absent
          /\ sample.components[k].aiProbability = Absent

\* C8: an array with a malformed sample (no label, or a component with
\* neither confidence nor aiProbability) is rejected with the failure alert
\* and neither the live weights nor the persisted entries change.
C8_MalformedSampleRejected ==
    [][\A i \in InputIds :
        (/\ CalibFinishes(i)
         /\ CalibInputs[i].kind = "array"
         /\ \E n \in 1..Len(CalibInputs[i].samples) : Malformed(CalibInputs[i].samples[n]))
            => (lastCalib'.alert = "failed" /\ UNCHANGED cfgVars)]_vars

\* the component keys a weight key stands for
MethodKeys(m) == IF m = "onnxWeb" THEN {"onnx", "onnxWeb"} ELSE {m}

\* the sample without the method m
WithoutMethod(sample, m) ==
    [sample EXCEPT !.components =
        [k \in CompKeys |-> IF k \in MethodKeys(m) THEN NoComp ELSE @[k]]]

\* C9: with weights of a positive sum, giving a method the weight 0 yields
\* the same score and aiProbability as removing the method from the sample,
\* whatever weight the method has when it is removed.
C9_ZeroWeightIsRemoval ==
    (call.op = "combineSample" /\ ret.done) =>
        \A m \in WeightKeys :
            (call.weights[m] = 0 /\ ActiveSum(call.weights) + call.weights.onnxWeb > 0) =>
                \A v \in ApiWeightVals :
                    \A r \in {combineSample(WithoutMethod(call.sample, m),
                                            [call.weights EXCEPT ![m] = v])} :
                        /\ FracEq(ret.val.score, r.score)
                        /\ FracEq(ret.val.aiProb, r.aiProb)

\* C10: with weights that sum to 0 the fused score is the neutral 50 and the
\* fused aiProbability the neutral 0.5.
C10_ZeroSumIsNeutral ==
    (/\ call.op = "combineSample" /\ ret.done
     /\ call.weights.traditional + call.weights.enhancedAI
        + call.weights.tensorflow + call.weights.onnxWeb = 0)
        => /\ FracEq(ret.val.score, Frac(NeutralScore, 1))
           /\ FracEq(ret.val.aiProb, Frac(NeutralProb, 1))

\* what a task contributes when a failed source counts as neutral
NeutralIfFailed(task, method) ==
    IF task.st = "rejected" THEN Result(NeutralScore, NeutralProb, method) ELSE task.result

\* the step in which the join of performAnalysis (line 169) has its outcome
JoinStep == pc = "awaitAll" /\ pc' \in {"done", "fallback", "failed"}

\* C11: a method that is missing or has failed counts with score 50 and
\* aiProbability 0.5 and raises no error: when the join of the three tasks
\* has its outcome, the analysis is done with the fusion of the three
\* results, the result of a failed task being (50, 0.5).
C11_AbsentMethodIsNeutral ==
    [][JoinStep =>
        /\ pc' = "done"
        /\ verdict'.kind = "fused"
        /\ \A c \in {combineResults(NeutralIfFailed(tradTask, "Traditional Analysis"),
                                    NeutralIfFailed(tfTask, "Fallback Analysis"),
                                    NeutralIfFailed(enhTask, "Enhanced AI Fallback"))} :
               /\ verdict'.confidence = c.confidence
               /\ verdict'.combinedAIProbability = c.aiProbability]_vars

\* C12: when every source of an analysis has failed, the analysis ends
\* without an error and with the neutral verdict: confidence 50,
\* aiProbability 0.5, status "Suspicious - Manual Review Recommended".
C12_AllFailedIsNeutralVerdict ==
    (/\ pc \in {"done", "failed"}
     /\ tradTask.st = "rejected"
     /\ tfTask.result = TFFallback
     /\ enhTask.result = EnhFallback)
        => /\ pc = "done"
           /\ verdict.kind = "fused"
           /\ verdict.confidence = NeutralScore
           /\ verdict.combinedAIProbability = WScale * NeutralProb
           /\ verdict.status = SuspiciousStatus

-----------------------------------------------------------------------------
(* The traditional source with its backend request (ImageAnalyzer) *)

\* ImageAnalyzer.combine (part_002 158-167): the overall confidence of the
\* classical confidence and the backend's (Absent: backend is null, or its
\* response carries no confidence)
combine(classical, hasBackend, backend) ==
    LET cw == IF hasBackend THEN 6 ELSE 10
        bw == IF hasBackend THEN 4 ELSE 0
        cc == IF classical = Absent \/ classical = 0 THEN NeutralScore ELSE classical
        bc == IF backend = Absent THEN 0 ELSE backend
    IN  RoundTenths(cc * cw + bc * bw)

\* the confidences a backend response may carry
BackendConfs == {Absent, 30, 90}

\* runClassicalForensics (analyzeImage line 94) settles: it rejects, or it
\* returns and, the backend being enabled (config.js lines 5 and 9),
\* runBackendForensics sends the request and awaits fetch (line 153)
TraditionalLocalDone(confs) ==
    /\ tradTask.st = "pending"
    /\ \/ \E c \in confs :
            tradTask' = Task("backend", Result(c, Absent, "Traditional Analysis"))
       \/ tradTask' = Task("rejected", NoResult)
    /\ UNCHANGED <<cfgVars, calibVars, currentFile, isAnalyzing, pc, tfTask, enhTask, verdict, apiVars, workerVars>>

\* the backend answers with a 2xx response (lines 153-155, 105)
BackendResponds ==
    /\ tradTask.st = "backend"
    /\ \E b \in BackendConfs :
          tradTask' = Task("fulfilled",
                           Result(combine(tradTask.result.confidence, TRUE, b), Absent,
                                  "Traditional Analysis"))
    /\ UNCHANGED <<cfgVars, calibVars, currentFile, isAnalyzing, pc, tfTask, enhTask, verdict, apiVars, workerVars>>

\* fetch rejects or the response is not ok: the catch of lines 100-102
BackendFails ==
    /\ tradTask.st = "backend"
    /\ tradTask' = Task("fulfilled",
                        Result(combine(tradTask.result.confidence, TRUE, NeutralScore), Absent,
                               "Traditional Analysis"))
    /\ UNCHANGED <<cfgVars, calibVars, currentFile, isAnalyzing, pc, tfTask, enhTask, verdict, apiVars, workerVars>>

NextBackend ==
    \/ HandleFileSelect
    \/ ResetUpload
    \/ AnalyzeImage
    \/ TraditionalLocalDone(TradConfs)
    \/ BackendResponds
    \/ BackendFails
    \/ TensorFlowSettles(AppResults)
    \/ EnhancedAISettles(AppResults)
    \/ AllFulfilled
    \/ AnyRejected
    \/ FallbackFulfilled
    \/ FallbackRejected

\* Every step of the program itself is eventually taken; whether and when
\* the backend answers is up to the network, and the user's actions are
\* up to the user.
SpecBackend ==
    /\ Init
    /\ [][NextBackend]_vars
    /\ WF_vars(TraditionalLocalDone(TradConfs))
    /\ WF_vars(TensorFlowSettles(AppResults))
    /\ WF_vars(EnhancedAISettles(AppResults))
    /\ WF_vars(AllFulfilled)
    /\ WF_vars(AnyRejected)
    /\ WF_vars(FallbackFulfilled)
    /\ WF_vars(FallbackRejected)

\* C13: a backend request that never answers counts as failed after a
\* bounded time, so every started analysis eventually leaves the
\* 'analyzing' state.
C13_AnalysisEventuallyEnds == isAnalyzing ~> ~isAnalyzing

\* C14: the fused verdict is a function of the three results by name and of
\* nothing else: whatever the order in which the sources completed, and in
\* every analysis with the same results, the confidence is the rounded
\* weighted sum of the three named confidences, the aiProbability the
\* weighted sum of the three named aiProbabilities, and the status the band
\* of that aiProbability, the weights being those of the named methods.
C14_VerdictDeterminedByNamedResults ==
    verdict.kind = "fused" =>
        \A w \in {liveWeights(tfTask.result, enhTask.result)} :
            /\ verdict.confidence =
                   RoundTenths(tradTask.result.confidence * w.traditional
                               + tfTask.result.confidence * w.tensorflow
                               + enhTask.result.confidence * w.enhancedAI)
            /\ verdict.combinedAIProbability =
                   OrHalf(tradTask.result.aiProbability) * w.traditional
                   + OrHalf(tfTask.result.aiProbability) * w.tensorflow
                   + OrHalf(enhTask.result.aiProbability) * w.enhancedAI
            /\ verdict.status = statusOf(verdict.combinedAIProbability)

\* a fused verdict of a TensorFlow result and an enhanced-AI result that
\* differ in confidence and in aiProbability, so that taking one for the
\* other would show
C14_DistinctResultsFused ==
    /\ verdict.kind = "fused"
    /\ tfTask.result.method = "Advanced CNN Analysis (Worker)"
    /\ enhTask.result.method = "Enhanced AI Analysis"
    /\ tfTask.result.confidence = 80 /\ enhTask.result.confidence = 20
    /\ tfTask.result.aiProbability = 30 /\ enhTask.result.aiProbability = 90

C16_PersistedConfigReadBack ==
    [][(/\ FusionStep
        /\ lastCalib = NoCalib
        /\ lsWeights # NullWeights
        /\ lsThreshold # Absent)
        => /\ ENSEMBLE = lsWeights
           /\ (verdict'.status = AIStatus)
                  <=> (verdict'.combinedAIProbability > 10 * lsThreshold)]_vars

-----------------------------------------------------------------------------
(* Page loads over what localStorage may hold *)

\* 'ensembleWeights' as an earlier session, an earlier version or the user
\* may have left it: no item, a record of some of the keys, a full record
StoredRecords ==
    {NullWeights,
     Weights(5, Absent, Absent, Absent),
     Weights(Absent, 2, Absent, 7),
     Weights(0, Absent, 6, Absent),
     Weights(1, 2, 3, 4)}

\* the first page load of a session, over a localStorage that is not empty
InitLoad ==
    /\ lsWeights \in StoredRecords
    /\ lsThreshold \in {Absent, 60}
    /\ ENSEMBLE = LoadedEnsemble(lsWeights)
    /\ calibPending = NoInput
    /\ lastCalib = NoCalib
    /\ currentFile = FALSE
    /\ isAnalyzing = FALSE
    /\ pc = "idle"
    /\ tradTask = IdleTask
    /\ tfTask = IdleTask
    /\ enhTask = IdleTask
    /\ verdict = NoVerdict
    /\ call = NoCall
    /\ ret = NoRet
    /\ NoAnalyzer

NextLoad ==
    \/ \E i \in InputIds : CalibFileChosen(i)
    \/ CalibResume
    \/ Reload

SpecLoad == InitLoad /\ [][NextLoad]_vars

\* the step of a page load: nothing is pending or finished, localStorage is
\* as it was
PageLoadStep ==
    /\ calibPending' = NoInput
    /\ lastCalib' = NoCalib
    /\ pc' = "idle"
    /\ UNCHANGED <<lsWeights, lsThreshold>>

\* C17: the page load merges key by key: every key of the stored weight
\* record overwrites that key of the default weights, every key the stored
\* record lacks keeps its default, and with no stored record the weights
\* are the defaults.
C17_LoadIsKeywiseMerge ==
    [][PageLoadStep =>
        \A k \in WeightKeys :
            ENSEMBLE'[k] = IF lsWeights[k] # Absent THEN lsWeights[k]
                           ELSE DefaultEnsemble[k]]_vars

\* a session loaded over a stored record of two of the four keys, after a
\* calibration of an earlier session
C17_PartialRecordLoaded ==
    /\ lastCalib = NoCalib
    /\ calibPending = NoInput
    /\ lsWeights = Weights(Absent, 2, Absent, 7)
    /\ ENSEMBLE = Weights(3, 2, 0, 7)

\* the calibration sample that carries the three results of an analysis
SampleOfResults(traditional, tensorflow, enhancedAI) ==
    [label |-> Absent,
     components |-> [k \in CompKeys |->
        CASE k = "traditional" -> Comp(traditional.confidence, traditional.aiProbability)
          [] k = "tensorflow" -> Comp(tensorflow.confidence, tensorflow.aiProbability)
          [] k = "enhancedAI" -> Comp(enhancedAI.confidence, enhancedAI.aiProbability)
          [] OTHER -> NoComp]]

\* the weights the live combiner uses, as a weight record of the calibrator
LiveWeightRecord(tensorflow, enhancedAI) ==
    Weights(liveWeights(tensorflow, enhancedAI).traditional,
            liveWeights(tensorflow, enhancedAI).enhancedAI,
            liveWeights(tensorflow, enhancedAI).tensorflow, 0)

\* C18: the calibrator's per-sample fusion and the live combiner are the
\* same function: what a fusion returns for the three results equals the
\* score and the aiProbability combineSample computes for the same values
\* under the same weights.
C18_CalibratorEqualsLiveCombiner ==
    [][FusionStep =>
        \A r \in {combineSample(SampleOfResults(tradTask.result, tfTask.result,
                                                enhTask.result),
                                LiveWeightRecord(tfTask.result, enhTask.result))} :
            /\ verdict'.confidence * r.score.d = r.score.n
            /\ verdict'.combinedAIProbability * r.aiProb.d = 10 * r.aiProb.n]_vars

\* the place of the candidate (w, th) in gridSearch's iteration order:
\* traditional outermost, then enhancedAI, then onnxWeb, threshold innermost
Rank(w, th) ==
    ((w.traditional * Len(steps) + w.enhancedAI) * Len(steps) + w.onnxWeb) * Len(thresholds)
    + (th - thresholds[1]) \div 10

\* is the returned best the first candidate, in iteration order, among those
\* of the grid that reach the best F1 and, with it, the best accuracy:
\* every earlier candidate is strictly worse, no later one is better
FirstAmongBest(samples, best) ==
    \A i \in 1..Len(steps), j \in 1..Len(steps), k \in 1..Len(steps),
       h \in 1..Len(thresholds) :
        steps[i] + steps[j] + steps[k] > 0 =>
            \A m \in {evaluateDataset(samples, Weights(steps[i], steps[j], 0, steps[k]),
                                      thresholds[h])} :
                IF Rank(Weights(steps[i], steps[j], 0, steps[k]), thresholds[h])
                       < Rank(best.weights, best.threshold)
                THEN \/ FracGT(best.f1, m.f1)
                     \/ FracEq(best.f1, m.f1) /\ FracGT(best.acc, m.acc)
                ELSE /\ ~FracGT(m.f1, best.f1)
                     /\ FracEq(m.f1, best.f1) => ~FracGT(m.acc, best.acc)
                     /\ Rank(Weights(steps[i], steps[j], 0, steps[k]), thresholds[h])
                            = Rank(best.weights, best.threshold)
                        => (FracEq(m.f1, best.f1) /\ FracEq(m.acc, best.acc))

\* has every candidate of the grid F1 0 and accuracy 0
AllCandidatesZero(samples) ==
    \A i \in 1..Len(steps), j \in 1..Len(steps), k \in 1..Len(steps),
       h \in 1..Len(thresholds) :
        steps[i] + steps[j] + steps[k] > 0 =>
            \A m \in {evaluateDataset(samples, Weights(steps[i], steps[j], 0, steps[k]),
                                      thresholds[h])} :
                FracEq(m.f1, FracZero) /\ FracEq(m.acc, FracZero)

PredictedAI(i) ==
    \A r \in {combineSample(call.samples[i], call.weights)} :
        r.aiProb.n >= call.threshold * r.aiProb.d

\* C20: evaluateDataset counts every sample in exactly one of TP, FP, TN, FN
\* (their sum is the number of samples), a sample being predicted AI iff its
\* fused aiProb >= threshold and actually AI iff its label is 1.
C20_ConfusionCounts ==
    (call.op = "evaluateDataset" /\ ret.done) =>
        LET idx == 1..Len(call.samples)
        IN  /\ ret.val.tp + ret.val.fp + ret.val.tn + ret.val.fn = Len(call.samples)
            /\ ret.val.tp = Cardinality({i \in idx : PredictedAI(i) /\ call.samples[i].label = 1})
            /\ ret.val.fp = Cardinality({i \in idx : PredictedAI(i) /\ call.samples[i].label # 1})
            /\ ret.val.tn = Cardinality({i \in idx : ~PredictedAI(i) /\ call.samples[i].label # 1})
            /\ ret.val.fn = Cardinality({i \in idx : ~PredictedAI(i) /\ call.samples[i].label = 1})

\* evaluateDataset has returned for two samples whose fused aiProb is
\* exactly the threshold 0.5: both are predicted AI
C20_SamplesAtThreshold ==
    /\ call.op = "evaluateDataset" /\ ret.done
    /\ call.samples = <<AISample, AuthenticSample>>
    /\ call.weights = Weights(0, 0, 0, 10)
    /\ call.threshold = 50
    /\ ret.val.tp = 1 /\ ret.val.fp = 1 /\ ret.val.tn = 0 /\ ret.val.fn = 0

\* C21: the metrics evaluateDataset returns follow the formulas:
\* accuracy = (TP+TN)/N (0 for no sample), and, with P = TP/max(1,TP+FP) and
\* R = TP/max(1,TP+FN), f1 = 2*P*R/(P+R), which is 2*TP/(2*TP+FP+FN) when
\* TP > 0 and 0 when TP = 0 (then P + R = 0); every denominator is positive.
C21_MetricFormulas ==
    (call.op = "evaluateDataset" /\ ret.done) =>
        /\ ret.val.acc.d > 0 /\ ret.val.f1.d > 0
        /\ IF Len(call.samples) = 0
           THEN FracEq(ret.val.acc, FracZero)
           ELSE FracEq(ret.val.acc, Frac(ret.val.tp + ret.val.tn, Len(call.samples)))
        /\ IF ret.val.tp = 0
           THEN FracEq(ret.val.f1, FracZero)
           ELSE FracEq(ret.val.f1,
                       Frac(2 * ret.val.tp, 2 * ret.val.tp + ret.val.fp + ret.val.fn))

\* evaluateDataset has returned for samples none of which is predicted AI
\* though one is AI: TP + FP = 0, f1 is 0
C21_NoPredictedPositives ==
    /\ call.op = "evaluateDataset" /\ ret.done
    /\ ret.val.tp + ret.val.fp = 0
    /\ ret.val.fn = 1 /\ ret.val.tn = 1
    /\ FracEq(ret.val.f1, FracZero)
    /\ FracEq(ret.val.acc, Frac(1, 2))

\* gridSearch has returned for the two samples of E2E scenario A
ScenarioAReturned ==
    /\ call.op = "gridSearch" /\ ret.done
    /\ call.samples = <<AISample, AuthenticSample>>

\* C22 as stated: on the scenario A dataset gridSearch returns accuracy 1 and
\* f1 1 with weights that favor traditional and enhancedAI roughly equally
\* (both positive, at most one grid step apart).
C22_ScenarioAFavorsBoth ==
    ScenarioAReturned =>
        /\ FracEq(ret.val.acc, Frac(1, 1)) /\ FracEq(ret.val.f1, Frac(1, 1))
        /\ ret.val.weights.traditional > 0 /\ ret.val.weights.enhancedAI > 0
        /\ ret.val.weights.traditional - ret.val.weights.enhancedAI \in -1..1

\* C22: on the scenario A dataset gridSearch returns accuracy 1 and f1 1 at
\* threshold 0.4 with all weight on enhancedAI: {traditional 0, enhancedAI 0.1,
\* onnxWeb 0, tensorflow 0}, the first candidate of the grid that separates
\* the two samples.
C22_ScenarioAResult ==
    ScenarioAReturned =>
        /\ FracEq(ret.val.acc, Frac(1, 1)) /\ FracEq(ret.val.f1, Frac(1, 1))
        /\ ret.val.threshold = 40
        /\ ret.val.weights = Weights(0, 1, 0, 0)

\* gridSearch has returned a perfect score for the scenario A dataset
C22_ScenarioAPerfect ==
    /\ ScenarioAReturned
    /\ FracEq(ret.val.f1, Frac(1, 1))
    /\ ret.val.weights # NullWeights

\* C23: under the shipped default configuration no step of an image analysis
\* transmits the uploaded image to a server: the analysis never waits on a
\* request that carries the file.
C23_ImageNeverSent == tradTask.st # "backend"

\* C26: in the classical/backend fusion a failed backend request and a
\* response without a confidence field give the same fused confidence, the
\* one of the neutral 50: whenever the backend leg settles, the fused
\* confidence is that of a confidence the backend reported or of neutral 50.
C26_FailedIsMissingConfidence ==
    [][(tradTask.st = "backend" /\ tradTask'.st = "fulfilled") =>
          tradTask'.result.confidence \in
              {combine(tradTask.result.confidence, TRUE, b) :
                   b \in (BackendConfs \ {Absent}) \cup {NeutralScore}}]_vars

\* C24: when the onnxWeb weight is positive, combineSample fuses the sample's
\* stored `onnxWeb` entry with that weight (the other methods as stored,
\* neutral when absent); the entry is not treated as absent.
C24_OnnxWebEntryUsed ==
    (/\ call.op = "combineSample" /\ ret.done
     /\ call.weights.onnxWeb > 0
     /\ call.sample.components["onnxWeb"].present) =>
        LET comp == call.sample.components
            w == call.weights
            sumW == w.traditional + w.enhancedAI + w.tensorflow + w.onnxWeb
        IN  /\ FracEq(ret.val.score,
                      Frac(Nullish(comp["traditional"].confidence, NeutralScore) * w.traditional
                           + Nullish(comp["enhancedAI"].confidence, NeutralScore) * w.enhancedAI
                           + Nullish(comp["tensorflow"].confidence, NeutralScore) * w.tensorflow
                           + Nullish(comp["onnxWeb"].confidence, NeutralScore) * w.onnxWeb,
                           sumW))
            /\ FracEq(ret.val.aiProb,
                      Frac(Nullish(comp["traditional"].aiProbability, NeutralProb) * w.traditional
                           + Nullish(comp["enhancedAI"].aiProbability, NeutralProb) * w.enhancedAI
                           + Nullish(comp["tensorflow"].aiProbability, NeutralProb) * w.tensorflow
                           + Nullish(comp["onnxWeb"].aiProbability, NeutralProb) * w.onnxWeb,
                           sumW))

\* C25: the live combiner substitutes the neutral 0.5 only for an aiProbability
\* that is absent; a reported aiProbability of 0 contributes 0: the fused
\* aiProbability (thousandths) is the weighted sum of the reported values
\* under the weights the fusion uses.
C25_ReportedZeroContributesZero ==
    [][FusionStep =>
        LET w == liveWeights(tfTask.result, enhTask.result)
        IN  verdict'.combinedAIProbability =
                Nullish(tradTask.result.aiProbability, NeutralProb) * w.traditional
                + Nullish(tfTask.result.aiProbability, NeutralProb) * w.tensorflow
                + Nullish(enhTask.result.aiProbability, NeutralProb) * w.enhancedAI]_vars

\* C27: after a calibration action has finished, a failed write to the store
\* included, the live weights and the persisted record agree: either the
\* stored weights, the stored threshold and the live weights are all the new
\* ones, or all three are unchanged.  Stated for a calibration whose search
\* found weights.
C27_LiveAndStoredAgree ==
    [][((\E i \in InputIds : CalibFinishes(i))
        /\ lastCalib'.alert = "done" /\ lastCalib'.best.weights # NullWeights) =>
          \/ /\ lsWeights' = lsWeights
             /\ lsThreshold' = lsThreshold
             /\ ENSEMBLE' = ENSEMBLE
          \/ /\ ENSEMBLE' = Merge(ENSEMBLE, lastCalib'.best.weights)
             /\ lsWeights' = ENSEMBLE'
             /\ lsThreshold' = lastCalib'.best.threshold]_vars

\* C28: at most one analysis is in flight.  isAnalyzing is true exactly
\* while an analysis is under way (it is false again once the analysis has
\* returned a verdict or thrown), and while isAnalyzing is true or no file
\* is selected no step starts an analysis: isAnalyzing does not become true,
\* the analysis does not go back to its start and no task is started again,
\* but for the traditional one by the fallback of the running analysis.
C28_OneAnalysisInFlight ==
    /\ [](isAnalyzing <=> pc \in {"awaitAll", "fallback"})
    /\ [][(isAnalyzing \/ ~currentFile) =>
            /\ isAnalyzing' => isAnalyzing
            /\ pc' = "awaitAll" => pc = "awaitAll"
            /\ tfTask'.st = "pending" => tfTask.st = "pending"
            /\ enhTask'.st = "pending" => enhTask.st = "pending"
            /\ tradTask'.st = "pending" =>
                   (tradTask.st = "pending" \/ (pc = "awaitAll" /\ pc' = "fallback"))]_vars

\* a file is selected and an analysis is under way, two of its tasks
\* settled: analyzeImage called now returns at line 79
C28_CallWhileAnalyzing ==
    /\ currentFile /\ isAnalyzing
    /\ pc = "awaitAll"
    /\ tfTask.st = "fulfilled" /\ enhTask.st = "fulfilled"
    /\ tradTask.st = "pending"

-----------------------------------------------------------------------------
(* TensorFlowAnalyzer and its Web Worker (tensorflowAnalysis.js) *)

\* the Workers the model lets one analyzer create
MaxWorkers == 3
\* line 76: the polls of analyzeImage for a ready worker
MaxAttempts == 20

\* initWorker (lines 18-64).  It contains no await, so it runs to its end in
\* one step: workerLoading is set at line 21 and cleared by the finally of
\* line 62 before anything else can run.  `new Worker` returns, or it throws
\* and the catch of lines 57-60 leaves the fields as they are.
initWorker ==
    IF workerLoading \/ isWorkerReady
    THEN UNCHANGED <<worker, isWorkerReady, workerLoading, workers, readyDue>>
    ELSE \/ /\ workers < MaxWorkers
            /\ workers' = workers + 1
            /\ worker' = workers + 1
            /\ readyDue' = readyDue \cup {workers + 1}
            /\ isWorkerReady' = isWorkerReady
            /\ workerLoading' = FALSE
         \/ /\ isWorkerReady' = FALSE
            /\ workerLoading' = FALSE
            /\ UNCHANGED <<worker, workers, readyDue>>

\* the constructor (lines 3-8) with init (lines 10-16)
NewTensorFlowAnalyzer ==
    /\ tfPc = "none"
    /\ initWorker
    /\ tfPc' = "idle"
    /\ UNCHANGED <<attempts, postedTo, cfgVars, calibVars, appVars, apiVars>>

\* a call of initWorker on the constructed analyzer
CallInitWorker ==
    /\ tfPc # "none"
    /\ initWorker
    /\ UNCHANGED <<tfPc, attempts, postedTo, cfgVars, calibVars, appVars, apiVars>>

\* a Worker's 'ready' message reaches the onmessage handler that initWorker
\* gave it (lines 29-37); the handler does not look at which Worker it is
WorkerReady ==
    /\ \E w \in readyDue : readyDue' = readyDue \ {w}
    /\ isWorkerReady' = TRUE
    /\ UNCHANGED <<worker, workerLoading, workers, tfPc, attempts, postedTo,
                   cfgVars, calibVars, appVars, apiVars>>

\* a Worker answers 'init' with 'error' (lines 47-50): the status text only
WorkerError ==
    /\ \E w \in readyDue : readyDue' = readyDue \ {w}
    /\ UNCHANGED <<worker, isWorkerReady, workerLoading, workers, tfPc, attempts, postedTo,
                   cfgVars, calibVars, appVars, apiVars>>

\* analyzeImage (lines 68-79) up to its first timer or, the worker being
\* ready, up to the await of fileToImageData
TFAnalyzeImage ==
    /\ tfPc \in {"idle", "returned", "failed"}
    /\ IF ~isWorkerReady
       THEN initWorker
       ELSE UNCHANGED <<worker, isWorkerReady, workerLoading, workers, readyDue>>
    /\ attempts' = 0
    /\ tfPc' = IF isWorkerReady THEN "prepare" ELSE "waiting"
    /\ UNCHANGED <<postedTo, cfgVars, calibVars, appVars, apiVars>>

\* a 250 ms timer of the loop of lines 76-79 fires; then the loop test, and
\* the throw of lines 81-83 after the last attempt
TimerFires ==
    /\ tfPc = "waiting"
    /\ attempts' = attempts + 1
    /\ tfPc' = IF isWorkerReady THEN "prepare"
               ELSE IF attempts + 1 < MaxAttempts THEN "waiting"
               ELSE "failed"
    /\ UNCHANGED <<worker, isWorkerReady, workerLoading, workers, readyDue, postedTo,
                   cfgVars, calibVars, appVars, apiVars>>

\* fileToImageData settles (line 89): the request is posted to this.worker
\* (lines 115-118), or the rejection is thrown on (lines 121-125)
FileConverted ==
    /\ tfPc = "prepare"
    /\ \/ tfPc' = "posted" /\ postedTo' = worker
       \/ tfPc' = "failed" /\ postedTo' = postedTo
    /\ UNCHANGED <<worker, isWorkerReady, workerLoading, workers, readyDue, attempts,
                   cfgVars, calibVars, appVars, apiVars>>

\* the request settles (lines 93-110): 'complete', or 'error' or the timeout
RequestSettles ==
    /\ tfPc = "posted"
    /\ tfPc' \in {"returned", "failed"}
    /\ UNCHANGED <<worker, isWorkerReady, workerLoading, workers, readyDue, attempts, postedTo,
                   cfgVars, calibVars, appVars, apiVars>>

NextWorker ==
    \/ NewTensorFlowAnalyzer
    \/ CallInitWorker
    \/ WorkerReady
    \/ WorkerError
    \/ TFAnalyzeImage
    \/ TimerFires
    \/ FileConverted
    \/ RequestSettles

SpecWorker == Init /\ [][NextWorker]_vars

\* C29: the analyzer creates at most one Worker: a call of analyzeImage or of
\* initWorker made after the constructor has started the initialisation and
\* before 'ready' has arrived creates no second Worker, and the request is
\* posted to the Worker whose 'ready' was awaited, the first.
C29_AtMostOneWorker ==
    /\ workers <= 1
    /\ tfPc = "posted" => postedTo = 1

\* C30: the fused confidence is an integer in [0,100] and the fused
\* aiProbability is in [0,1] for every sample and every weight vector of
\* positive sum: what combineSample returns is a whole score between 0 and
\* 100 and an aiProb between 0 and 1 (aiProb is kept in hundredths).
C30_FusedValuesInRange ==
    (/\ call.op = "combineSample" /\ ret.done
     /\ call.weights.traditional + call.weights.enhancedAI
        + call.weights.tensorflow + call.weights.onnxWeb > 0) =>
        /\ ret.val.score.n % ret.val.score.d = 0
        /\ 0 <= ret.val.score.n /\ ret.val.score.n <= 100 * ret.val.score.d
        /\ 0 <= ret.val.aiProb.n /\ ret.val.aiProb.n <= 100 * ret.val.aiProb.d

=============================================================================
